---------------------------- MODULE Spec2Model ----------------------------
(***************************************************************************)
(* Folder rules engine (engine.py) and its MCP server shell (server.py).   *)
(*                                                                         *)
(* A Python str is a sequence of one-character strings, so that strip,     *)
(* lower, split, fnmatch and the regular expressions of the engine are     *)
(* computed character by character as the code computes them.              *)
(***************************************************************************)
EXTENDS Integers, Sequences, FiniteSets, TLC

VARIABLES
    content,        \* engine: the text handed to parse_rules
    rules,          \* engine: the FolderRules parse_rules returned
    description,    \* engine: the description handed to suggest / slugify
    file_type,      \* engine: the file_type handed to suggest
    path,           \* engine: the path handed to validate
    result,         \* engine: what suggest returned
    verdict,        \* engine: what validate returned
    slug,           \* engine: slugify(description)
    reslug,         \* engine: slugify(slug)
    pc,             \* engine: which call has been made
    env_path,       \* server: os.environ.get("FOLDER_RULES_PATH")
    files,          \* server: the candidate ruleset files on disk
    _rules_cache,   \* server: the module global _rules_cache
    _rules_mtime,   \* server: the module global _rules_mtime
    request,        \* server: the last tool call
    response        \* server: what the last tool call returned

vars == <<content, rules, description, file_type, path, result, verdict, slug,
          reslug, pc, env_path, files, _rules_cache, _rules_mtime, request,
          response>>

engineVars == <<content, rules, description, file_type, path, result, verdict,
                slug, reslug, pc>>

serverVars == <<env_path, files, _rules_cache, _rules_mtime, request, response>>

---------------------------------------------------------------------------
(* Bounds of the model.                                                    *)

\* Lines of a ruleset text.
MaxLines == 2
\* Characters of a slugify input.
MaxSlugLen == 4
\* Distinct modification times a file can carry.
MaxMtime == 2

---------------------------------------------------------------------------
(* Characters and the str methods the engine uses.                         *)

UpperLetters == <<"A", "B", "C", "D", "E", "F", "G", "H", "I", "J", "K", "L", "M", "N", "O", "P", "Q", "R", "S", "T", "U", "V", "W", "X", "Y", "Z">>

LowerLetters == <<"a", "b", "c", "d", "e", "f", "g", "h", "i", "j", "k", "l", "m", "n", "o", "p", "q", "r", "s", "t", "u", "v", "w", "x", "y", "z">>

Digits == <<"0", "1", "2", "3", "4", "5", "6", "7", "8", "9">>

Range(s) == {s[i] : i \in 1..Len(s)}

\* the whitespace str.strip() strips and \s matches, among the characters of the model
Whitespace == {" ", "\t", "\n", "\r"}

IsSpace(c) == c \in Whitespace

\* the regular expression class \w
IsWordChar(c) == c \in Range(UpperLetters) \cup Range(LowerLetters) \cup Range(Digits) \cup {"_"}

LowerChar(c) ==
    IF c \in Range(UpperLetters)
    THEN LowerLetters[CHOOSE i \in 1..Len(UpperLetters) : UpperLetters[i] = c]
    ELSE c

\* str.lower
Lower(s) == [i \in 1..Len(s) |-> LowerChar(s[i])]

\* str.strip(chars)
StripChars(s, chars) ==
    LET keep == {i \in 1..Len(s) : s[i] \notin chars}
        lo == CHOOSE i \in keep : \A j \in keep : i <= j
        hi == CHOOSE i \in keep : \A j \in keep : j <= i
    IN IF keep = {} THEN <<>> ELSE SubSeq(s, lo, hi)

\* str.rstrip(chars)
RStripChars(s, chars) ==
    LET keep == {i \in 1..Len(s) : s[i] \notin chars}
        hi == CHOOSE i \in keep : \A j \in keep : j <= i
    IN IF keep = {} THEN <<>> ELSE SubSeq(s, 1, hi)

\* str.strip()
Strip(s) == StripChars(s, Whitespace)

\* str.startswith
StartsWith(s, prefix) ==
    Len(s) >= Len(prefix) /\ SubSeq(s, 1, Len(prefix)) = prefix

\* str.find, 1-based; 0 when sub does not occur
Find(s, sub) ==
    LET hits == {i \in 1..(Len(s) - Len(sub) + 1) : SubSeq(s, i, i + Len(sub) - 1) = sub}
    IN IF hits = {} THEN 0 ELSE CHOOSE i \in hits : \A j \in hits : i <= j

\* str.split(sep)
RECURSIVE Split(_, _)
Split(s, sep) ==
    LET i == Find(s, sep)
    IN IF i = 0 THEN <<s>>
       ELSE <<SubSeq(s, 1, i - 1)>> \o Split(SubSeq(s, i + Len(sep), Len(s)), sep)

\* str.splitlines for "\n" line ends: no empty last line after a final "\n"
SplitLines(s) ==
    LET parts == Split(s, <<"\n">>)
    IN IF parts[Len(parts)] = <<>> THEN SubSeq(parts, 1, Len(parts) - 1) ELSE parts

\* sep.join(parts)
RECURSIVE Join(_, _)
Join(parts, sep) ==
    IF parts = <<>> THEN <<>>
    ELSE IF Len(parts) = 1 THEN parts[1]
    ELSE parts[1] \o sep \o Join(Tail(parts), sep)

\* all sequences over S of length at most n
SeqsUpTo(S, n) == UNION {[1..k -> S] : k \in 0..n}

\* Python's None where a str is expected (proposed_path, FOLDER_RULES_PATH, a Path)
NoneStr == <<"None">>

\* Python's None where an object is expected (FolderRules, a result)
None == [tag |-> "None"]

---------------------------------------------------------------------------
(* engine.py                                                               *)

PatternRule(globs, target) == [globs |-> globs, target |-> target]

FolderRules(allowed, patterns, raw) ==
    [allowed |-> allowed, patterns |-> patterns, raw |-> raw]

PatternPrefix == <<"p", "a", "t", "t", "e", "r", "n", ":">>

Arrow == <<" ", "-", ">", " ">>

\* the body of the loop for a "pattern:" line that holds the separator
parse_pattern(line) ==
    LET rest == SubSeq(line, Len(PatternPrefix) + 1, Len(line))
        i == Find(rest, Arrow)
        globs_str == SubSeq(rest, 1, i - 1)
        target == SubSeq(rest, i + Len(Arrow), Len(rest))
        kept == SelectSeq(Split(globs_str, <<"|">>), LAMBDA g : Strip(g) # <<>>)
        globs == [k \in 1..Len(kept) |-> Lower(Strip(kept[k]))]
    IN PatternRule(globs, Strip(target))

parse_rules(text) ==
    LET raw_lines == SplitLines(text)
        lines == SelectSeq([k \in 1..Len(raw_lines) |-> Strip(raw_lines[k])],
                           LAMBDA l : l # <<>> /\ ~StartsWith(l, <<"#">>))
        IsPattern(l) == StartsWith(l, PatternPrefix)
        HasArrow(l) == Find(SubSeq(l, Len(PatternPrefix) + 1, Len(l)), Arrow) # 0
        allowed == SelectSeq(lines, LAMBDA l : ~IsPattern(l))
        pattern_lines == SelectSeq(lines, LAMBDA l : IsPattern(l) /\ HasArrow(l))
        patterns == [k \in 1..Len(pattern_lines) |-> parse_pattern(pattern_lines[k])]
    IN FolderRules(allowed, patterns, text)

\* re.sub(r"[^\w\s.\-]", "", text): the characters slugify keeps
SlugKeeps(c) == IsWordChar(c) \/ IsSpace(c) \/ c = "." \/ c = "-"

\* re.sub(r"[chars]+", "-", text): every maximal run of chars becomes one hyphen
HyphenateRuns(s, chars) ==
    LET marked == [i \in 1..Len(s) |->
                      IF s[i] \notin chars THEN s[i]
                      ELSE IF i > 1 /\ s[i - 1] \in chars THEN "" ELSE "-"]
    IN SelectSeq(marked, LAMBDA c : c # "")

\* the class [\s_]
SpaceOrUnderscore == Whitespace \cup {"_"}

Untitled == <<"u", "n", "t", "i", "t", "l", "e", "d">>

\* a slugify that strips the hyphens before the whitespace becomes hyphens
slugify_strip_first(text) ==
    LET t1 == Strip(Lower(text))
        t2 == SelectSeq(t1, SlugKeeps)
        t3 == StripChars(t2, {"-"})
        t4 == HyphenateRuns(t3, SpaceOrUnderscore)
        t5 == HyphenateRuns(t4, {"-"})
    IN IF t5 # <<>> THEN t5 ELSE Untitled

slugify(text) ==
    LET t1 == Strip(Lower(text))
        t2 == SelectSeq(t1, SlugKeeps)
        t3 == HyphenateRuns(t2, SpaceOrUnderscore)
        t4 == HyphenateRuns(t3, {"-"})
        t5 == StripChars(t4, {"-"})
    IN IF t5 # <<>> THEN t5 ELSE Untitled

ext_map ==
    (<<"m", "a", "r", "k", "d", "o", "w", "n">> :> <<".", "m", "d">>) @@ (<<"m", "d">> :> <<".", "m", "d">>) @@ (<<"p", "d", "f">> :> <<".", "p", "d", "f">>) @@
    (<<"i", "m", "a", "g", "e">> :> <<".", "p", "n", "g">>) @@ (<<"c", "o", "d", "e">> :> <<>>) @@ (<<"p", "y", "t", "h", "o", "n">> :> <<".", "p", "y">>) @@
    (<<"j", "a", "v", "a", "s", "c", "r", "i", "p", "t">> :> <<".", "j", "s">>) @@ (<<"t", "y", "p", "e", "s", "c", "r", "i", "p", "t">> :> <<".", "t", "s">>) @@
    (<<"j", "s", "o", "n">> :> <<".", "j", "s", "o", "n">>) @@ (<<"y", "a", "m", "l">> :> <<".", "y", "a", "m", "l">>) @@ (<<"c", "s", "v">> :> <<".", "c", "s", "v">>) @@
    (<<"h", "t", "m", "l">> :> <<".", "h", "t", "m", "l">>) @@ (<<"c", "s", "s">> :> <<".", "c", "s", "s">>) @@ (<<"f", "o", "l", "d", "e", "r">> :> <<>>) @@
    (<<"f", "i", "l", "e">> :> <<>>)

\* an extension_for that hands back the caller's tag as it came
extension_for_verbatim(ft_in) ==
    LET ft == Strip(Lower(ft_in))
    IN IF StartsWith(ft, <<".">>) THEN ft_in
       ELSE IF ft \in DOMAIN ext_map THEN ext_map[ft] ELSE <<>>

extension_for(ft_in) ==
    LET ft == Strip(Lower(ft_in))
    IN IF StartsWith(ft, <<".">>) THEN ft
       ELSE IF ft \in DOMAIN ext_map THEN ext_map[ft] ELSE <<>>

_categories(r) == SelectSeq(r.allowed, LAMBDA f : ~StartsWith(f, <<".">>))

\* fnmatch.fnmatch(name, pat) on POSIX, for patterns of literals, "*" and "?"
RECURSIVE fnmatch(_, _)
fnmatch(name, pat) ==
    IF pat = <<>> THEN name = <<>>
    ELSE IF Head(pat) = "*"
         THEN fnmatch(name, Tail(pat)) \/ (name # <<>> /\ fnmatch(Tail(name), pat))
    ELSE IF Head(pat) = "?"
         THEN name # <<>> /\ fnmatch(Tail(name), Tail(pat))
    ELSE name # <<>> /\ Head(name) = Head(pat) /\ fnmatch(Tail(name), Tail(pat))

\* the regular expression \b at offset k of s (before s[k + 1])
WordBoundary(s, k) ==
    LET before == k >= 1 /\ IsWordChar(s[k])
        after == k < Len(s) /\ IsWordChar(s[k + 1])
    IN before # after

\* re.search(r'\b' + re.escape(word) + r'\b', s)
WordSearch(word, s) ==
    \E i \in 1..(Len(s) - Len(word) + 1) :
        /\ SubSeq(s, i, i + Len(word) - 1) = word
        /\ WordBoundary(s, i - 1)
        /\ WordBoundary(s, i - 1 + Len(word))

\* the (rule, glob) pairs of rules.patterns in the order the two loops visit them
RECURSIVE GlobPairs(_)
GlobPairs(patterns) ==
    IF patterns = <<>> THEN <<>>
    ELSE [i \in 1..Len(patterns[1].globs) |->
             [rule |-> patterns[1], glob |-> patterns[1].globs[i]]]
         \o GlobPairs(Tail(patterns))

\* a suggest that lets a category name in the description beat a pattern rule
suggest_categories_first(r, desc, ft) ==
    LET desc_lower == Lower(desc)
        ext == extension_for(ft)
        filename == IF ext # <<>> THEN slugify(desc) \o ext ELSE slugify(desc)
        categories == _categories(r)
        tier1 == SelectSeq(GlobPairs(r.patterns), LAMBDA p : fnmatch(desc_lower, p.glob))
        tier2 == SelectSeq(categories, LAMBDA folder : WordSearch(Lower(folder), desc_lower))
    IN IF tier1 # <<>> /\ tier2 = <<>>
       THEN LET target == RStripChars(tier1[1].rule.target, {"/"})
            IN [tier |-> "pattern",
                suggested |-> target \o <<"/">> \o filename,
                glob |-> tier1[1].glob,
                target |-> tier1[1].rule.target,
                category |-> target]
       ELSE IF tier2 # <<>>
       THEN [tier |-> "category",
             suggested |-> tier2[1] \o <<"/">> \o filename,
             category |-> tier2[1]]
       ELSE [tier |-> "fallback",
             description |-> desc,
             categories |-> categories,
             filename |-> filename]

\* a suggest that builds the category path from the lower-cased name
suggest_lower_category(r, desc, ft) ==
    LET desc_lower == Lower(desc)
        ext == extension_for(ft)
        filename == IF ext # <<>> THEN slugify(desc) \o ext ELSE slugify(desc)
        categories == _categories(r)
        tier1 == SelectSeq(GlobPairs(r.patterns), LAMBDA p : fnmatch(desc_lower, p.glob))
        tier2 == SelectSeq(categories, LAMBDA folder : WordSearch(Lower(folder), desc_lower))
    IN IF tier1 # <<>>
       THEN LET target == RStripChars(tier1[1].rule.target, {"/"})
            IN [tier |-> "pattern",
                suggested |-> target \o <<"/">> \o filename,
                glob |-> tier1[1].glob,
                target |-> tier1[1].rule.target,
                category |-> target]
       ELSE IF tier2 # <<>>
       THEN [tier |-> "category",
             suggested |-> Lower(tier2[1]) \o <<"/">> \o filename,
             category |-> tier2[1]]
       ELSE [tier |-> "fallback",
             description |-> desc,
             categories |-> categories,
             filename |-> filename]

suggest(r, desc, ft) ==
    LET desc_lower == Lower(desc)
        ext == extension_for(ft)
        filename == IF ext # <<>> THEN slugify(desc) \o ext ELSE slugify(desc)
        categories == _categories(r)
        tier1 == SelectSeq(GlobPairs(r.patterns), LAMBDA p : fnmatch(desc_lower, p.glob))
        tier2 == SelectSeq(categories, LAMBDA folder : WordSearch(Lower(folder), desc_lower))
    IN IF tier1 # <<>>
       THEN LET target == RStripChars(tier1[1].rule.target, {"/"})
            IN [tier |-> "pattern",
                suggested |-> target \o <<"/">> \o filename,
                glob |-> tier1[1].glob,
                target |-> tier1[1].rule.target,
                category |-> target]
       ELSE IF tier2 # <<>>
       THEN [tier |-> "category",
             suggested |-> tier2[1] \o <<"/">> \o filename,
             category |-> tier2[1]]
       ELSE [tier |-> "fallback",
             description |-> desc,
             categories |-> categories,
             filename |-> filename]

\* pathlib.PurePosixPath(path).parts: the root if any ("//" for exactly two
\* leading slashes, else "/"), then the segments that are neither empty nor "."
Parts(p) ==
    LET segs == SelectSeq(Split(p, <<"/">>), LAMBDA s : s # <<>> /\ s # <<".">>)
        root == IF StartsWith(p, <<"/", "/">>) /\ ~StartsWith(p, <<"/", "/", "/">>)
                THEN <<"/", "/">> ELSE <<"/">>
    IN IF StartsWith(p, <<"/">>) THEN <<root>> \o segs ELSE segs

DotDot == <<".", ".">>

\* a validate that looks the top-level folder up before it rejects the path
validate_allowed_first(r, p) ==
    LET parts == Parts(p)
        top_level == parts[1]
    IN IF (StartsWith(p, <<"/">>) \/ DotDot \in Range(parts))
          /\ ~(parts # <<>> /\ top_level \in Range(r.allowed))
       THEN [kind |-> "invalid_relative"]
       ELSE IF parts = <<>>
       THEN [kind |-> "invalid_empty"]
       ELSE IF top_level \in Range(r.allowed)
       THEN [kind |-> "valid", path |-> p, category |-> top_level]
       ELSE [kind |-> "invalid_not_allowed",
             top_level |-> top_level,
             allowed |-> _categories(r),
             suggestion |-> suggest(r, Join(parts, <<" ">>), <<"f", "i", "l", "e">>)]

\* a validate that looks the top-level folder up among the visible categories
validate_visible_only(r, p) ==
    LET parts == Parts(p)
        top_level == parts[1]
    IN IF StartsWith(p, <<"/">>) \/ DotDot \in Range(parts)
       THEN [kind |-> "invalid_relative"]
       ELSE IF parts = <<>>
       THEN [kind |-> "invalid_empty"]
       ELSE IF top_level \in Range(_categories(r))
       THEN [kind |-> "valid", path |-> p, category |-> top_level]
       ELSE [kind |-> "invalid_not_allowed",
             top_level |-> top_level,
             allowed |-> _categories(r),
             suggestion |-> suggest(r, Join(parts, <<" ">>), <<"f", "i", "l", "e">>)]

validate(r, p) ==
    LET parts == Parts(p)
        top_level == parts[1]
    IN IF StartsWith(p, <<"/">>) \/ DotDot \in Range(parts)
       THEN [kind |-> "invalid_relative"]
       ELSE IF parts = <<>>
       THEN [kind |-> "invalid_empty"]
       ELSE IF top_level \in Range(r.allowed)
       THEN [kind |-> "valid", path |-> p, category |-> top_level]
       ELSE [kind |-> "invalid_not_allowed",
             top_level |-> top_level,
             allowed |-> _categories(r),
             suggestion |-> suggest(r, Join(parts, <<" ">>), <<"f", "i", "l", "e">>)]

\* the three files discovery looks at: $FOLDER_RULES_PATH, cwd and home
EnvRules == <<"/", "e", "t", "c", "/", "f", "o", "l", "d", "e", "r", "-", "r", "u", "l", "e", "s">>

CwdRules == <<".", "/", ".", "f", "o", "l", "d", "e", "r", "-", "r", "u", "l", "e", "s">>

HomeRules == <<"~", "/", ".", "f", "o", "l", "d", "e", "r", "-", "r", "u", "l", "e", "s">>

Candidates == {EnvRules, CwdRules, HomeRules}

NoFile == [exists |-> FALSE]

File(text, mtime) == [exists |-> TRUE, text |-> text, mtime |-> mtime]

\* the first candidate for which Path.is_file() holds, or None
FirstFile(candidates, fs) ==
    LET found == SelectSeq(candidates, LAMBDA p : fs[p].exists)
    IN IF found = <<>> THEN NoneStr ELSE found[1]

find_rules_path(env, fs) ==
    FirstFile((IF env # NoneStr THEN <<env>> ELSE <<>>) \o <<CwdRules, HomeRules>>, fs)

load_rules(search_paths, env, fs) ==
    LET p == FirstFile((IF env # NoneStr THEN <<env>> ELSE <<>>) \o search_paths
                       \o <<HomeRules>>, fs)
    IN IF p = NoneStr THEN None ELSE parse_rules(fs[p].text)

\* _get_rules: what it returns and what it leaves in the two globals
_get_rules(env, fs, cache, cached_mtime) ==
    LET p == find_rules_path(env, fs)
        mtime == fs[p].mtime
        reload == cache = None \/ mtime # cached_mtime
    IN IF p = NoneStr
       THEN [ret |-> None, cache |-> cache, mtime |-> cached_mtime]
       ELSE IF reload
       THEN [ret |-> load_rules(<<p>>, env, fs),
             cache |-> load_rules(<<p>>, env, fs),
             mtime |-> mtime]
       ELSE [ret |-> cache, cache |-> cache, mtime |-> cached_mtime]

NotFound(tool) == [kind |-> "no_rules_file", tool |-> tool]

\* the dispatch of suggest_location once the rules are loaded
dispatch(r, desc, ft, proposed_path) ==
    IF proposed_path # NoneStr /\ proposed_path # <<>>
    THEN validate(r, proposed_path)
    ELSE suggest(r, desc, ft)

---------------------------------------------------------------------------
(* The engine's pure functions, applied to inputs drawn from bounded sets.  *)

\* the lines a ruleset text is made of: the categories skills, c+, .h,
\* " Ab " (to be stripped) and "..", a comment, a rule of two globs into a
\* declared folder (pattern:*S*|?? -> skills/), a rule into an undeclared one
\* (pattern:a*|*b* -> zz), two rules without a glob (pattern: -> x and
\* pattern:| -> x), a line without the separator (pattern:*b ->x) and a rule
\* with an absolute target (pattern:*b* -> /)
Lines ==
    { <<"s", "k", "i", "l", "l", "s">>, <<"c", "+">>, <<".", "h">>, <<" ", "A", "b", " ">>, <<".", ".">>, <<"#", " ", "c">>,
      <<"p", "a", "t", "t", "e", "r", "n", ":", "*", "S", "*", "|", "?", "?", " ", "-", ">", " ", "s", "k", "i", "l", "l", "s", "/">>, <<"p", "a", "t", "t", "e", "r", "n", ":", "a", "*", "|", "*", "b", "*", " ", "-", ">", " ", "z", "z">>,
      <<"p", "a", "t", "t", "e", "r", "n", ":", " ", "-", ">", " ", "x">>, <<"p", "a", "t", "t", "e", "r", "n", ":", "|", " ", "-", ">", " ", "x">>, <<"p", "a", "t", "t", "e", "r", "n", ":", "*", "b", " ", "-", ">", "x">>,
      <<"p", "a", "t", "t", "e", "r", "n", ":", "*", "b", "*", " ", "-", ">", " ", "/">> }

Contents == {Join(ls, <<"\n">>) : ls \in SeqsUpTo(Lines, MaxLines)}

\* "", skills overview, upskills training, c+ x, c+y, AB, ab!, ..
Descriptions ==
    { <<>>, <<"s", "k", "i", "l", "l", "s", " ", "o", "v", "e", "r", "v", "i", "e", "w">>, <<"u", "p", "s", "k", "i", "l", "l", "s", " ", "t", "r", "a", "i", "n", "i", "n", "g">>, <<"c", "+", " ", "x">>, <<"c", "+", "y">>,
      <<"A", "B">>, <<"a", "b", "!">>, <<".", ".">> }

\* file, "PDF ", .csv, .CSV, ".py ", ./.., zip
FileTypes == { <<"f", "i", "l", "e">>, <<"P", "D", "F", " ">>, <<".", "c", "s", "v">>, <<".", "C", "S", "V">>, <<".", "p", "y", " ">>, <<".", "/", ".", ".">>, <<"z", "i", "p">> }

\* "", ., /skills/x, skills/x.md, skills/../x, ../x, Skills/x, .h/x,
\* ./skills, zz/a, c+/x, ab
Paths ==
    { <<>>, <<".">>, <<"/", "s", "k", "i", "l", "l", "s", "/", "x">>, <<"s", "k", "i", "l", "l", "s", "/", "x", ".", "m", "d">>, <<"s", "k", "i", "l", "l", "s", "/", ".", ".", "/", "x">>, <<".", ".", "/", "x">>,
      <<"S", "k", "i", "l", "l", "s", "/", "x">>, <<".", "h", "/", "x">>, <<".", "/", "s", "k", "i", "l", "l", "s">>, <<"z", "z", "/", "a">>, <<"c", "+", "/", "x">>, <<"a", "b">> }

NoFiles == [p \in Candidates |-> NoFile]

ServerIdle ==
    /\ env_path = NoneStr /\ files = NoFiles /\ _rules_cache = None
    /\ _rules_mtime = 0 /\ request = None /\ response = None

InitEngine ==
    /\ content \in Contents
    /\ rules = None /\ description = <<>> /\ file_type = <<>> /\ path = <<>>
    /\ result = None /\ verdict = None /\ slug = <<>> /\ reslug = <<>>
    /\ pc = "start"
    /\ ServerIdle

ParseRules ==
    /\ pc = "start"
    /\ rules' = parse_rules(content)
    /\ pc' = "parsed"
    /\ UNCHANGED <<content, description, file_type, path, result, verdict, slug, reslug>>
    /\ UNCHANGED serverVars

Suggest ==
    /\ pc = "parsed"
    /\ \E d \in Descriptions, ft \in FileTypes :
          /\ description' = d
          /\ file_type' = ft
          /\ result' = suggest(rules, d, ft)
    /\ pc' = "suggested"
    /\ UNCHANGED <<content, rules, path, verdict, slug, reslug>>
    /\ UNCHANGED serverVars

Validate ==
    /\ pc = "parsed"
    /\ \E p \in Paths :
          /\ path' = p
          /\ verdict' = validate(rules, p)
    /\ pc' = "validated"
    /\ UNCHANGED <<content, rules, description, file_type, result, slug, reslug>>
    /\ UNCHANGED serverVars

\* validate applied to the path suggest has just proposed
ValidateSuggested ==
    /\ pc = "suggested"
    /\ result.tier \in {"pattern", "category"}
    /\ path' = result.suggested
    /\ verdict' = validate(rules, result.suggested)
    /\ pc' = "revalidated"
    /\ UNCHANGED <<content, rules, description, file_type, result, slug, reslug>>
    /\ UNCHANGED serverVars

NextEngine == ParseRules \/ Suggest \/ Validate \/ ValidateSuggested

SpecEngine == InitEngine /\ [][NextEngine]_vars

---------------------------------------------------------------------------
(* slugify, applied once and then to its own result.                       *)

SlugAlphabet == {"a", "A", "1", "_", " ", "-", ".", "!"}

InitSlug ==
    /\ description \in SeqsUpTo(SlugAlphabet, MaxSlugLen)
    /\ content = <<>> /\ rules = None /\ file_type = <<>> /\ path = <<>>
    /\ result = None /\ verdict = None /\ slug = <<>> /\ reslug = <<>>
    /\ pc = "start"
    /\ ServerIdle

Slugify ==
    /\ pc = "start"
    /\ slug' = slugify(description)
    /\ pc' = "slugged"
    /\ UNCHANGED <<content, rules, description, file_type, path, result, verdict, reslug>>
    /\ UNCHANGED serverVars

SlugifyAgain ==
    /\ pc = "slugged"
    /\ reslug' = slugify(slug)
    /\ pc' = "reslugged"
    /\ UNCHANGED <<content, rules, description, file_type, path, result, verdict, slug>>
    /\ UNCHANGED serverVars

NextSlug == Slugify \/ SlugifyAgain

SpecSlug == InitSlug /\ [][NextSlug]_vars

---------------------------------------------------------------------------
(* server.py: the tools and the ruleset files they read.                    *)

\* what a ruleset file can hold: the two lines skills and pattern:a* -> zz,
\* or the one line c+
FileTexts == { <<"s", "k", "i", "l", "l", "s", "\n", "p", "a", "t", "t", "e", "r", "n", ":", "a", "*", " ", "-", ">", " ", "z", "z">>, <<"c", "+">> }

Mtimes == 1..MaxMtime

ToolDescriptions == { <<"s", "k", "i", "l", "l", "s", " ", "o", "v", "e", "r", "v", "i", "e", "w">>, <<"a", "b">> }

ProposedPaths == { NoneStr, <<>>, <<"s", "k", "i", "l", "l", "s", "/", "x">> }

EngineIdle ==
    /\ content = <<>> /\ rules = None /\ description = <<>> /\ file_type = <<>>
    /\ path = <<>> /\ result = None /\ verdict = None /\ slug = <<>>
    /\ reslug = <<>> /\ pc = "idle"

Init ==
    /\ env_path \in {NoneStr, EnvRules}
    /\ files \in [Candidates -> {NoFile} \cup {File(t, m) : t \in FileTexts, m \in Mtimes}]
    /\ _rules_cache = None
    /\ _rules_mtime = 0
    /\ request = None
    /\ response = None
    /\ EngineIdle

CreateFile ==
    /\ \E p \in Candidates, t \in FileTexts, m \in Mtimes :
          /\ ~files[p].exists
          /\ files' = [files EXCEPT ![p] = File(t, m)]
    /\ UNCHANGED <<env_path, _rules_cache, _rules_mtime, request, response>>
    /\ UNCHANGED engineVars

\* an edit moves the modification time forward
EditFile ==
    /\ \E p \in Candidates, t \in FileTexts, m \in Mtimes :
          /\ files[p].exists
          /\ m > files[p].mtime
          /\ files' = [files EXCEPT ![p] = File(t, m)]
    /\ UNCHANGED <<env_path, _rules_cache, _rules_mtime, request, response>>
    /\ UNCHANGED engineVars

DeleteFile ==
    /\ \E p \in Candidates :
          /\ files[p].exists
          /\ files' = [files EXCEPT ![p] = NoFile]
    /\ UNCHANGED <<env_path, _rules_cache, _rules_mtime, request, response>>
    /\ UNCHANGED engineVars

suggest_location ==
    /\ \E d \in ToolDescriptions, ft \in { <<"f", "i", "l", "e">> }, pp \in ProposedPaths :
          LET got == _get_rules(env_path, files, _rules_cache, _rules_mtime)
          IN /\ request' = [tool |-> "suggest_location", description |-> d,
                            file_type |-> ft, proposed_path |-> pp]
             /\ _rules_cache' = got.cache
             /\ _rules_mtime' = got.mtime
             /\ response' = IF got.ret = None THEN NotFound("suggest_location")
                            ELSE dispatch(got.ret, d, ft, pp)
    /\ UNCHANGED <<env_path, files>>
    /\ UNCHANGED engineVars

get_rules ==
    /\ LET got == _get_rules(env_path, files, _rules_cache, _rules_mtime)
       IN /\ request' = [tool |-> "get_rules"]
          /\ _rules_cache' = got.cache
          /\ _rules_mtime' = got.mtime
          /\ response' = IF got.ret = None THEN NotFound("get_rules")
                         ELSE [kind |-> "rules_raw", raw |-> got.ret.raw]
    /\ UNCHANGED <<env_path, files>>
    /\ UNCHANGED engineVars

Next == CreateFile \/ EditFile \/ DeleteFile \/ suggest_location \/ get_rules

Spec == Init /\ [][Next]_vars

---------------------------------------------------------------------------
(* Properties.                                                             *)

\* the (rule index, glob index) pairs whose glob matches the lower-cased description
GlobHits ==
    UNION { { <<i, j>> : j \in { k \in 1..Len(rules.patterns[i].globs) :
                                   fnmatch(Lower(description), rules.patterns[i].globs[k]) } }
            : i \in 1..Len(rules.patterns) }

\* declared order: rules in file order, globs left to right within a rule
Earlier(a, b) == a[1] < b[1] \/ (a[1] = b[1] /\ a[2] <= b[2])

\* the indexes of the visible categories that the code's category test accepts
CategoryHits ==
    { k \in 1..Len(_categories(rules)) :
        WordSearch(Lower(_categories(rules)[k]), Lower(description)) }

\* the filename inside what suggest returned
ResultFilename ==
    IF result.tier = "fallback" THEN result.filename
    ELSE SubSeq(result.suggested, Len(result.category) + 2, Len(result.suggested))

\* C1: suggest evaluates its tiers in strict order: when any glob matches the
\* lower-cased description the result is the pattern-tier result of the first
\* matching glob in declared order, also when a category name occurs in the
\* description; the category-tier result comes only when no glob matches and
\* names the first matching visible category; the fallback comes only when
\* neither tier matches.
C1_TiersInOrder ==
    pc \in {"suggested", "revalidated"} =>
        /\ GlobHits # {} =>
              /\ result.tier = "pattern"
              /\ \E first \in GlobHits :
                    /\ \A h \in GlobHits : Earlier(first, h)
                    /\ result.glob = rules.patterns[first[1]].globs[first[2]]
                    /\ result.target = rules.patterns[first[1]].target
                    /\ result.suggested =
                          RStripChars(rules.patterns[first[1]].target, {"/"})
                          \o <<"/">> \o ResultFilename
        /\ (GlobHits = {} /\ CategoryHits # {}) =>
              /\ result.tier = "category"
              /\ \E first \in CategoryHits :
                    /\ \A k \in CategoryHits : first <= k
                    /\ result.category = _categories(rules)[first]
        /\ (GlobHits = {} /\ CategoryHits = {}) => result.tier = "fallback"

\* C1 witness: a pattern-tier result although a visible category also occurs
\* in the description and more than one glob matches.
C1_Witness ==
    /\ pc = "suggested"
    /\ result.tier = "pattern"
    /\ CategoryHits # {}
    /\ Cardinality(GlobHits) >= 2

\* the segments of a path as written: the pieces between the slashes
RawSegments(p) == Range(Split(p, <<"/">>))

\* C2: validate answers "only relative paths are accepted" whenever the path
\* is absolute or one of its segments is "..", whatever the ruleset allows;
\* the answer carries no suggestion of the Matcher.
C2_RejectsAbsoluteAndTraversal ==
    (pc \in {"validated", "revalidated"}
     /\ (StartsWith(path, <<"/">>) \/ DotDot \in RawSegments(path)))
        => verdict = [kind |-> "invalid_relative"]

\* C2 witness: "../x" is rejected although ".." is declared as a category.
C2_Witness ==
    /\ pc = "validated"
    /\ path = <<".", ".", "/", "x">>
    /\ DotDot \in Range(rules.allowed)
    /\ verdict.kind = "invalid_relative"

\* C3: for a relative path with at least one segment and no ".." segment,
\* validate answers "Valid", naming the first segment, exactly when that
\* segment equals, case-sensitively, an entry of the unfiltered allowed list.
C3_ValidIffTopLevelAllowed ==
    (pc = "validated"
     /\ ~StartsWith(path, <<"/">>)
     /\ DotDot \notin Range(Parts(path))
     /\ Parts(path) # <<>>)
        => LET first == Parts(path)[1]
               declared == \E i \in 1..Len(rules.allowed) : rules.allowed[i] = first
           IN /\ declared => verdict = [kind |-> "valid", path |-> path, category |-> first]
              /\ ~declared => verdict.kind = "invalid_not_allowed"

\* C3 witness: ".h/x" is valid under a ruleset that declares the hidden
\* category ".h", which the visibility filter leaves out.
C3_Witness ==
    /\ pc = "validated"
    /\ path = <<".", "h", "/", "x">>
    /\ verdict.kind = "valid"
    /\ verdict.category = <<".", "h">>
    /\ _categories(rules) # rules.allowed

\* a whole-word occurrence as the claim words it: an occurrence that is not
\* immediately preceded or followed by a word character
WholeWordOccurs(word, s) ==
    \E i \in 1..(Len(s) - Len(word) + 1) :
        /\ SubSeq(s, i, i + Len(word) - 1) = word
        /\ (i = 1 \/ ~IsWordChar(s[i - 1]))
        /\ (i + Len(word) - 1 = Len(s) \/ ~IsWordChar(s[i + Len(word)]))

\* C4: in the category tier a visible category matches exactly when its
\* lower-cased name occurs in the lower-cased description as a whole word,
\* not immediately preceded or followed by a word character; with no
\* matching glob, the result is the category tier exactly when some visible
\* category so occurs, and the fallback otherwise.
C4_WholeWordCategoryMatch ==
    (pc = "suggested" /\ GlobHits = {}) =>
        (result.tier = "category"
            <=> \E k \in 1..Len(_categories(rules)) :
                    WholeWordOccurs(Lower(_categories(rules)[k]), Lower(description)))

\* C5: every PatternRule of the ruleset parse_rules returns has a non-empty
\* globs list.
C5_GlobsNonEmpty ==
    pc # "start" =>
        \A i \in 1..Len(rules.patterns) : rules.patterns[i].globs # <<>>

\* C6: slugify is idempotent: slugify(slugify(x)) = slugify(x).
C6_SlugifyIdempotent ==
    pc = "reslugged" => reslug = slug

\* C6 witness: an input mixing underscore and removed punctuation whose slug
\* differs from it and holds a hyphen, slugified twice.
C6_Witness ==
    /\ pc = "reslugged"
    /\ "_" \in Range(description)
    /\ "!" \in Range(description)
    /\ "-" \in Range(slug)
    /\ slug # description

\* C7 as claimed: for a file-type tag that starts with ".", the filename
\* suggest builds is the slug followed by the tag unchanged.
C7_ExtensionUnchanged ==
    (pc = "suggested" /\ StartsWith(file_type, <<".">>))
        => ResultFilename = slugify(description) \o file_type

\* C7 amended: for a file-type tag that starts with ".", the filename suggest
\* builds is the slug followed by the tag lower-cased and stripped of
\* surrounding whitespace.
C7_ExtensionNormalised ==
    (pc = "suggested" /\ StartsWith(file_type, <<".">>))
        => ResultFilename = slugify(description) \o Strip(Lower(file_type))

\* C7 witness: the tag ".CSV" has been appended as ".csv".
C7_Witness ==
    /\ pc = "suggested"
    /\ file_type = <<".", "C", "S", "V">>
    /\ ResultFilename = slugify(description) \o <<".", "c", "s", "v">>

\* C8: with a ruleset loaded, suggest_location returns the Path Validator's
\* result for proposed_path whenever one is supplied, the empty string
\* included, and the Matcher's result only when none is supplied.
C8_ProposedPathAlwaysValidated ==
    (/\ request # None
     /\ request.tool = "suggest_location"
     /\ response # NotFound("suggest_location"))
        => response = IF request.proposed_path # NoneStr
                      THEN validate(_rules_cache, request.proposed_path)
                      ELSE suggest(_rules_cache, request.description, request.file_type)

\* what a tool call answers when it works on the parse of the current
\* content of the file discovery selects now
FreshAnswer(req) ==
    LET p == find_rules_path(env_path, files)
        fresh == parse_rules(files[p].text)
    IN IF p = NoneStr THEN NotFound(req.tool)
       ELSE IF req.tool = "get_rules" THEN [kind |-> "rules_raw", raw |-> fresh.raw]
       ELSE dispatch(fresh, req.description, req.file_type, req.proposed_path)

\* C9: whatever file events came before, a get_rules or suggest_location
\* call works on the parse of the current content of the file discovery
\* currently selects, never on a ruleset cached from an earlier file or
\* earlier content, and answers the not-found guidance when no file is found.
C9_NeverStale ==
    [][(get_rules \/ suggest_location) => response' = FreshAnswer(request')]_vars

\* C10 as claimed: whenever suggest returns a pattern-tier or category-tier
\* result "Suggested: P", validate on the same ruleset and P answers "Valid".
C10_SuggestedPathIsValid ==
    pc = "revalidated" => verdict.kind = "valid"

\* the target of the matched rule is a relative path, free of "..", whose
\* first segment is an allowed entry
TargetIsAllowed ==
    /\ ~StartsWith(result.target, <<"/">>)
    /\ Parts(result.target) # <<>>
    /\ DotDot \notin Range(Parts(result.target))
    /\ Parts(result.target)[1] \in Range(rules.allowed)

\* C10 amended: validate answers "Valid" for the suggested path whenever the
\* file type holds no "/", the filename is not "..", and either the result is
\* a category-tier result for a category name without "/", or it is a
\* pattern-tier result whose target is a relative path without ".." segment
\* whose first segment is an allowed entry.
C10_SuggestedPathIsValidWhenTargetAllowed ==
    (/\ pc = "revalidated"
     /\ "/" \notin Range(file_type)
     /\ ResultFilename # DotDot
     /\ \/ result.tier = "category" /\ "/" \notin Range(result.category)
        \/ result.tier = "pattern" /\ TargetIsAllowed)
        => verdict = [kind |-> "valid", path |-> result.suggested,
                      category |-> Parts(result.suggested)[1]]

\* C10 witness: a pattern-tier suggestion into a declared category has been
\* validated.
C10_Witness ==
    /\ pc = "revalidated"
    /\ result.tier = "pattern"
    /\ TargetIsAllowed
    /\ ResultFilename # DotDot
    /\ "/" \notin Range(file_type)
    /\ verdict.kind = "valid"

===========================================================================
